---- MODULE Spec2Model ----
(***************************************************************************)
(* ProjectionSystem (packages/core/src/projection/ProjectionSystem.ts).    *)
(*                                                                         *)
(* The state is the system's five public fields, the two renderer objects  *)
(* update() touches (globalUniforms and the shader system) and a record of *)
(* the most recent call.  There is one action per method and one per field *)
(* the host renderer assigns from outside.                                 *)
(*                                                                         *)
(* JavaScript numbers are modelled as exact values of the extended         *)
(* rationals: <<n, d>> with d > 0 in lowest terms is n/d, <<1, 0>> is      *)
(* Infinity, <<-1, 0>> is -Infinity and <<0, 0>> is NaN.  Rounding of      *)
(* doubles and the sign of zero are not modelled.                          *)
(***************************************************************************)
EXTENDS Integers, Sequences, FiniteSets, TLC

VARIABLES destinationFrame, sourceFrame, defaultFrame, projectionMatrix,
          transform, globalUniforms, shader, last, persist

vars == <<destinationFrame, sourceFrame, defaultFrame, projectionMatrix,
          transform, globalUniforms, shader, last, persist>>

\* Number of globalUniforms.update() calls explored (dirtyId grows without bound).
MaxDirty == 2

\* JavaScript null.
NULL == [null |-> TRUE]

----------------------------------------------------------------------------
\* Number arithmetic of lines 112-121 (and of Matrix.append).

Abs(i) == IF i < 0 THEN -i ELSE i

Sgn(i) == IF i < 0 THEN -1 ELSE IF i > 0 THEN 1 ELSE 0

RECURSIVE GCD(_, _)
GCD(i, j) == IF j = 0 THEN i ELSE GCD(j, i % j)

\* The number n/d: lowest terms, positive denominator; x/0 is +-Infinity, 0/0 is NaN.
Norm(n, d) ==
    IF d = 0 THEN <<Sgn(n), 0>>
    ELSE LET g == GCD(Abs(n), Abs(d))
             s == Sgn(d)
         IN  <<(s * n) \div g, (s * d) \div g>>

Num(i) == <<i, 1>>

NaN == <<0, 0>>

Infinity == <<1, 0>>

IsFinite(p) == p[2] # 0

Neg(p) == <<-p[1], p[2]>>

Mul(p, q) == Norm(p[1] * q[1], p[2] * q[2])

Div(p, q) == Mul(p, Norm(q[2], q[1]))

Add(p, q) ==
    IF p = NaN \/ q = NaN THEN NaN
    ELSE IF ~IsFinite(p) /\ ~IsFinite(q) THEN (IF p = q THEN p ELSE NaN)
    ELSE IF ~IsFinite(p) THEN p
    ELSE IF ~IsFinite(q) THEN q
    ELSE Norm(p[1] * q[2] + q[1] * p[2], p[2] * q[2])

Sub(p, q) == Add(p, Neg(q))

----------------------------------------------------------------------------
\* Rectangles and matrices.

Rectangle(x, y, width, height) ==
    [x |-> x, y |-> y, width |-> width, height |-> height]

\* new Matrix(): the identity.  id names the instance.
Matrix(id) ==
    [id |-> id, a |-> Num(1), b |-> Num(0), c |-> Num(0), d |-> Num(1),
     tx |-> Num(0), ty |-> Num(0)]

\* The six components of a matrix, without the instance.
Components(m) ==
    [a |-> m.a, b |-> m.b, c |-> m.c, d |-> m.d, tx |-> m.tx, ty |-> m.ty]

\* Matrix.append: this = this * matrix.
append(pm, matrix) ==
    [pm EXCEPT
        !.a  = Add(Mul(matrix.a, pm.a), Mul(matrix.b, pm.c)),
        !.b  = Add(Mul(matrix.a, pm.b), Mul(matrix.b, pm.d)),
        !.c  = Add(Mul(matrix.c, pm.a), Mul(matrix.d, pm.c)),
        !.d  = Add(Mul(matrix.c, pm.b), Mul(matrix.d, pm.d)),
        !.tx = Add(Add(Mul(matrix.tx, pm.a), Mul(matrix.ty, pm.c)), pm.tx),
        !.ty = Add(Add(Mul(matrix.tx, pm.b), Mul(matrix.ty, pm.d)), pm.ty)]

\* Frames the host passes to update(): the two of the documented examples, one
\* of another size with a negative x, and one without width.
FrameA == Rectangle(0, 0, 800, 600)

FrameB == Rectangle(100, 50, 800, 600)

FrameC == Rectangle(-20, 30, 50, 40)

FrameZ == Rectangle(0, 0, 0, 600)

\* Only a source frame's size is ever read.
DestinationFrames == {FrameA, FrameC}

SourceFrames == {FrameA, FrameB, FrameZ}

\* Frames the host stores in defaultFrame.
FrameD == Rectangle(0, 0, 400, 300)

DefaultFrames == {FrameD}

\* A matrix the host stores in transform: shear, scale and translation.
Shear ==
    [a |-> Num(1), b |-> Num(1), c |-> Num(1), d |-> Num(2),
     tx |-> Num(1), ty |-> Num(3)]

Transforms == {Shear}

Resolutions == {1, 2}

Roots == BOOLEAN

\* The shader program bound on the renderer.
Program == [program |-> TRUE]

----------------------------------------------------------------------------
\* The statements of update(), each a function of the machine state st: the
\* fields of the system and of the renderer, whether an exception is
\* propagating (threw), the calls made so far (trace) and what the bound
\* shader program was sent (synced).

\* JavaScript x || y on object references: null is falsy, an object truthy.
Or(x, y) == IF x # NULL THEN x ELSE y

Fields ==
    [destinationFrame |-> destinationFrame, sourceFrame |-> sourceFrame,
     defaultFrame |-> defaultFrame, projectionMatrix |-> projectionMatrix,
     transform |-> transform, globalUniforms |-> globalUniforms,
     shader |-> shader]

Enter(f) ==
    [destinationFrame |-> f.destinationFrame, sourceFrame |-> f.sourceFrame,
     defaultFrame |-> f.defaultFrame, projectionMatrix |-> f.projectionMatrix,
     transform |-> f.transform, globalUniforms |-> f.globalUniforms,
     shader |-> f.shader, threw |-> FALSE, trace |-> <<>>, synced |-> NULL]

\* resolveDestination with the default frame tried before the stored frame.
resolveDestination_defaultFirst(arg, stored, default) == Or(Or(arg, default), stored)

\* Line 77.
resolveDestination(arg, stored, default) == Or(Or(arg, stored), default)

\* resolveSource without the stored frame.
resolveSource_noStored(arg, stored, destinationArg) == Or(arg, destinationArg)

\* resolveSource with the destinationFrame parameter tried before the stored frame.
resolveSource_destinationFirst(arg, stored, destinationArg) ==
    Or(Or(arg, destinationArg), stored)

\* Line 78: the last fallback is the destinationFrame parameter.
resolveSource(arg, stored, destinationArg) == Or(Or(arg, stored), destinationArg)

\* calculateProjection without the factor 2 of the horizontal scale.
calculateProjection_unitScale(pm, _destinationFrame, frame, _resolution, root) ==
    LET sign == IF ~root THEN 1 ELSE -1
        a == Div(Num(1), Num(frame.width))
        d == Mul(Num(sign), Mul(Div(Num(1), Num(frame.height)), Num(2)))
    IN  [pm EXCEPT
            !.a  = a,
            !.d  = d,
            !.tx = Sub(Num(-1), Mul(Num(frame.x), a)),
            !.ty = Sub(Num(-sign), Mul(Num(frame.y), d))]

\* calculateProjection with the vertical translation not following the sign.
calculateProjection_fixedOrigin(pm, _destinationFrame, frame, _resolution, root) ==
    LET sign == IF ~root THEN 1 ELSE -1
        a == Mul(Div(Num(1), Num(frame.width)), Num(2))
        d == Mul(Num(sign), Mul(Div(Num(1), Num(frame.height)), Num(2)))
    IN  [pm EXCEPT
            !.a  = a,
            !.d  = d,
            !.tx = Sub(Num(-1), Mul(Num(frame.x), a)),
            !.ty = Sub(Num(-1), Mul(Num(frame.y), d))]

\* calculateProjection with the frame's size divided by the resolution.
calculateProjection_resolutionScaled(pm, _destinationFrame, frame, _resolution, root) ==
    LET sign == IF ~root THEN 1 ELSE -1
        a == Mul(Div(Num(_resolution), Num(frame.width)), Num(2))
        d == Mul(Num(sign), Mul(Div(Num(_resolution), Num(frame.height)), Num(2)))
    IN  [pm EXCEPT
            !.a  = a,
            !.d  = d,
            !.tx = Sub(Num(-1), Mul(Num(frame.x), a)),
            !.ty = Sub(Num(-sign), Mul(Num(frame.y), d))]

\* calculateProjection with a frame without width or height given scale 0.
calculateProjection_guarded(pm, _destinationFrame, frame, _resolution, root) ==
    LET sign == IF ~root THEN 1 ELSE -1
        a == IF frame.width = 0 THEN Num(0)
             ELSE Mul(Div(Num(1), Num(frame.width)), Num(2))
        d == IF frame.height = 0 THEN Num(0)
             ELSE Mul(Num(sign), Mul(Div(Num(1), Num(frame.height)), Num(2)))
    IN  [pm EXCEPT
            !.a  = a,
            !.d  = d,
            !.tx = Sub(Num(-1), Mul(Num(frame.x), a)),
            !.ty = Sub(Num(-sign), Mul(Num(frame.y), d))]

\* Lines 109-122, on the matrix instance pm = this.projectionMatrix.
calculateProjection(pm, _destinationFrame, frame, _resolution, root) ==
    LET sign == IF ~root THEN 1 ELSE -1
        a == Mul(Div(Num(1), Num(frame.width)), Num(2))
        d == Mul(Num(sign), Mul(Div(Num(1), Num(frame.height)), Num(2)))
    IN  [pm EXCEPT
            !.a  = a,
            !.d  = d,
            !.tx = Sub(Num(-1), Mul(Num(frame.x), a)),
            !.ty = Sub(Num(-sign), Mul(Num(frame.y), d))]

\* Line 77 also keeping the resolved frame as the default frame.
assignDestinationFrame_storesDefault(st, dst) ==
    [st EXCEPT
        !.destinationFrame =
            resolveDestination(dst, st.destinationFrame, st.defaultFrame),
        !.defaultFrame =
            resolveDestination(dst, st.destinationFrame, st.defaultFrame)]

\* Line 77.
assignDestinationFrame(st, dst) ==
    [st EXCEPT !.destinationFrame =
        resolveDestination(dst, st.destinationFrame, st.defaultFrame)]

\* Line 78.
assignSourceFrame(st, src, dst) ==
    [st EXCEPT !.sourceFrame = resolveSource(src, st.sourceFrame, dst)]

\* Line 81.  Reading sourceFrame.width of null (line 117) throws a TypeError
\* before anything is written.
callCalculateProjection(st, resolution, root) ==
    IF st.threw THEN st
    ELSE IF st.sourceFrame = NULL
    THEN [st EXCEPT !.threw = TRUE,
                    !.trace = Append(@, "calculateProjection")]
    ELSE [st EXCEPT
            !.projectionMatrix =
                calculateProjection(@, st.destinationFrame, st.sourceFrame,
                                    resolution, root),
            !.trace = Append(@, "calculateProjection")]

\* Lines 83-86.
appendTransform(st) ==
    IF st.threw \/ st.transform = NULL THEN st
    ELSE [st EXCEPT !.projectionMatrix = append(@, st.transform),
                    !.trace = Append(@, "append")]

\* Line 90: the uniform holds a reference to the matrix instance.
setProjectionUniform(st) ==
    IF st.threw THEN st
    ELSE [st EXCEPT !.globalUniforms.projectionMatrix = st.projectionMatrix.id,
                    !.trace = Append(@, "uniforms.projectionMatrix")]

\* UniformGroup.update(): marks the group for upload.
UniformGroupUpdate(group) == [group EXCEPT !.dirtyId = @ + 1]

\* update() without the call of globalUniforms.update().
updateGlobalUniforms_skipped(st) == st

\* Line 91.
updateGlobalUniforms(st) ==
    IF st.threw THEN st
    ELSE [st EXCEPT !.globalUniforms = UniformGroupUpdate(@),
                    !.trace = Append(@, "globalUniforms.update")]

\* The renderer's globalUniforms group starts with a matrix of its own.
RendererMatrix == Matrix(0)

\* The components a uniform group's projectionMatrix entry refers to.
UniformValue(group, pm) ==
    IF group.projectionMatrix = pm.id THEN Components(pm)
    ELSE Components(RendererMatrix)

\* ShaderSystem.syncUniformGroup: the values the bound program receives.
syncUniformGroup(group, pm) == UniformValue(group, pm)

\* Lines 95-98.
syncShader(st) ==
    IF st.threw \/ st.shader.shader = NULL THEN st
    ELSE [st EXCEPT
            !.synced = syncUniformGroup(st.globalUniforms, st.projectionMatrix),
            !.trace = Append(@, "syncUniformGroup")]

\* update() with lines 90-91 moved before the call of calculateProjection.
updateBody_uniformsFirst(f, dst, src, resolution, root) ==
    LET s77 == assignDestinationFrame(Enter(f), dst)
        s78 == assignSourceFrame(s77, src, dst)
        s90 == setProjectionUniform(s78)
        s91 == updateGlobalUniforms(s90)
        s81 == callCalculateProjection(s91, resolution, root)
        s85 == appendTransform(s81)
    IN  syncShader(s85)

\* Lines 75-99: the state update() leaves when called in state f.
updateBody(f, dst, src, resolution, root) ==
    LET s77 == assignDestinationFrame(Enter(f), dst)
        s78 == assignSourceFrame(s77, src, dst)
        s81 == callCalculateProjection(s78, resolution, root)
        s85 == appendTransform(s81)
        s90 == setProjectionUniform(s85)
        s91 == updateGlobalUniforms(s90)
    IN  syncShader(s91)

----------------------------------------------------------------------------
\* The record of the most recent call: its arguments, the fields before it
\* (pre), whether it threw, the calls it made, what it sent to the bound
\* shader program, and whether it repeats the arguments of an update() made
\* immediately before it.

NoCall(op) ==
    [op |-> op, destinationFrame |-> NULL, sourceFrame |-> NULL,
     resolution |-> 0, root |-> FALSE, matrix |-> NULL, threw |-> FALSE,
     trace |-> <<>>, synced |-> NULL, repeat |-> FALSE, pre |-> NULL]

SameArguments(dst, src, resolution, root) ==
    /\ last.op = "update"
    /\ last.destinationFrame = dst
    /\ last.sourceFrame = src
    /\ last.resolution = resolution
    /\ last.root = root

\* The frames a caller expects to persist: set by an update() that supplies
\* both frames, kept while later calls supply no source frame; calls counts
\* those later calls.
Persisted(dst, src) ==
    IF dst # NULL /\ src # NULL
    THEN [destinationFrame |-> dst, sourceFrame |-> src, calls |-> 0]
    ELSE IF src # NULL \/ persist = NULL THEN NULL
    ELSE [persist EXCEPT !.destinationFrame = Or(dst, @),
                         !.calls = @ + 1]

\* Line 55 and lines 34-62: the constructor.
Init ==
    /\ destinationFrame = NULL
    /\ sourceFrame = NULL
    /\ defaultFrame = NULL
    /\ projectionMatrix = Matrix(1)
    /\ transform = NULL
    /\ globalUniforms = [projectionMatrix |-> RendererMatrix.id, dirtyId |-> 0]
    /\ shader = [shader |-> NULL]
    /\ last = NoCall("constructor")
    /\ persist = NULL

\* Lines 75-99.
update(dst, src, resolution, root) ==
    /\ globalUniforms.dirtyId < MaxDirty
    /\ \E st \in {updateBody(Fields, dst, src, resolution, root)} :
           /\ destinationFrame' = st.destinationFrame
           /\ sourceFrame' = st.sourceFrame
           /\ defaultFrame' = st.defaultFrame
           /\ projectionMatrix' = st.projectionMatrix
           /\ transform' = st.transform
           /\ globalUniforms' = st.globalUniforms
           /\ shader' = st.shader
           /\ last' = [op |-> "update", destinationFrame |-> dst,
                       sourceFrame |-> src, resolution |-> resolution,
                       root |-> root, matrix |-> NULL, threw |-> st.threw,
                       trace |-> st.trace, synced |-> st.synced,
                       repeat |-> SameArguments(dst, src, resolution, root),
                       pre |-> Fields]
    /\ persist' = Persisted(dst, src)

\* setTransform storing its argument in transform.
setTransformBody_assigns(f, matrix) == [f EXCEPT !.transform = matrix]

\* Lines 129-132: the body is a comment.
setTransformBody(f, matrix) == f

setTransform(matrix) ==
    /\ LET f == setTransformBody(Fields, matrix)
       IN  /\ destinationFrame' = f.destinationFrame
           /\ sourceFrame' = f.sourceFrame
           /\ defaultFrame' = f.defaultFrame
           /\ projectionMatrix' = f.projectionMatrix
           /\ transform' = f.transform
           /\ globalUniforms' = f.globalUniforms
           /\ shader' = f.shader
    /\ last' = [NoCall("setTransform") EXCEPT !.matrix = matrix, !.pre = Fields]
    /\ UNCHANGED persist

\* The host assigns the public field defaultFrame (line 19).
setDefaultFrame(frame) ==
    /\ defaultFrame # frame
    /\ defaultFrame' = frame
    /\ last' = NoCall("host")
    /\ UNCHANGED <<destinationFrame, sourceFrame, projectionMatrix, transform,
                   globalUniforms, shader, persist>>

\* The host assigns the public field transform (line 21).
setTransformField(matrix) ==
    /\ transform # matrix
    /\ transform' = matrix
    /\ last' = NoCall("host")
    /\ UNCHANGED <<destinationFrame, sourceFrame, defaultFrame, projectionMatrix,
                   globalUniforms, shader, persist>>

\* The host binds or unbinds a shader: renderer.shader.shader (line 95).
bindShader(program) ==
    /\ shader.shader # program
    /\ shader' = [shader EXCEPT !.shader = program]
    /\ last' = NoCall("host")
    /\ UNCHANGED <<destinationFrame, sourceFrame, defaultFrame, projectionMatrix,
                   transform, globalUniforms, persist>>

Update ==
    \E dst \in DestinationFrames \cup {NULL}, src \in SourceFrames \cup {NULL},
       resolution \in Resolutions, root \in Roots :
        update(dst, src, resolution, root)

SetTransform == \E matrix \in Transforms : setTransform(matrix)

SetDefaultFrame == \E frame \in DefaultFrames \cup {NULL} : setDefaultFrame(frame)

SetTransformField == \E matrix \in Transforms \cup {NULL} : setTransformField(matrix)

BindShader == \E program \in {Program, NULL} : bindShader(program)

Next ==
    \/ Update
    \/ SetTransform
    \/ SetDefaultFrame
    \/ SetTransformField
    \/ BindShader

Spec == Init /\ [][Next]_vars

----------------------------------------------------------------------------
\* Properties.

Called == last.op = "update"

Completed == Called /\ ~last.threw

\* The projection of section 4.2 for a source frame and a root flag.
DerivedProjection(frame, root) ==
    LET sign == IF root THEN -1 ELSE 1
        a == Div(Num(2), Num(frame.width))
        d == Div(Num(sign * 2), Num(frame.height))
    IN  [a |-> a, b |-> Num(0), c |-> Num(0), d |-> d,
         tx |-> Sub(Num(-1), Mul(Num(frame.x), a)),
         ty |-> Sub(Num(-sign), Mul(Num(frame.y), d))]

\* C1: after every update call the stored sourceFrame is the supplied source
\* frame, else the previously stored one, else the destination frame this
\* call resolved (which may come from the stored frame or from defaultFrame).
C1_SourceFallback ==
    Called =>
        sourceFrame =
            IF last.sourceFrame # NULL THEN last.sourceFrame
            ELSE IF last.pre.sourceFrame # NULL THEN last.pre.sourceFrame
            ELSE destinationFrame

\* C2: update never raises an exception, whatever frames are present.
C2_NeverThrows == Called => ~last.threw

\* C3: an update that repeats the arguments of the update just before it
\* leaves all six components of projectionMatrix as that update left them.
C3_Idempotent ==
    (Called /\ last.repeat) =>
        Components(projectionMatrix) = Components(last.pre.projectionMatrix)

\* C4: after every update made while transform is non-null, projectionMatrix
\* is the derived projection of the resolved source frame and root, appended
\* with transform.
C4_TransformComposition ==
    (Completed /\ transform # NULL) =>
        Components(projectionMatrix) =
            append(DerivedProjection(sourceFrame, last.root), transform)

\* C5: after every update made while transform is null, projectionMatrix is
\* the derived projection of the resolved source frame and root, with b = 0
\* and c = 0, whatever calls and transforms came before.
C5_HistoryIndependent ==
    (Completed /\ transform = NULL) =>
        Components(projectionMatrix) = DerivedProjection(sourceFrame, last.root)

\* C6: an update made while transform is null with a source frame of non-zero
\* width and height yields a = 2/width, d = sign*2/height, tx = -1 - x*a and
\* ty = -sign - y*d, sign being -1 for root and +1 otherwise; the frame
\* {0,0,800,600} with root false gives 1/400, 1/300, -1, -1 and the frame
\* {100,50,800,600} gives tx = -5/4, ty = -7/6.
C6_Derivation ==
    (Completed /\ transform = NULL) =>
        /\ (sourceFrame.width # 0 /\ sourceFrame.height # 0) =>
              LET p == DerivedProjection(sourceFrame, last.root)
              IN  /\ projectionMatrix.a = p.a
                  /\ projectionMatrix.d = p.d
                  /\ projectionMatrix.tx = p.tx
                  /\ projectionMatrix.ty = p.ty
        /\ (sourceFrame = FrameA /\ ~last.root) =>
              /\ projectionMatrix.a = <<1, 400>>
              /\ projectionMatrix.d = <<1, 300>>
              /\ projectionMatrix.tx = <<-1, 1>>
              /\ projectionMatrix.ty = <<-1, 1>>
        /\ (sourceFrame = FrameB /\ ~last.root) =>
              /\ projectionMatrix.tx = <<-5, 4>>
              /\ projectionMatrix.ty = <<-7, 6>>

\* The first update of a new system, with the offset frame and root false.
C6_Witness ==
    /\ Completed
    /\ last.pre.destinationFrame = NULL
    /\ last.pre.sourceFrame = NULL
    /\ last.pre.projectionMatrix = Matrix(1)
    /\ transform = NULL
    /\ ~last.root
    /\ sourceFrame = FrameB
    /\ projectionMatrix.ty = <<-7, 6>>

\* The matrix the same call would have left with the other value of root.
OtherRoot ==
    updateBody(last.pre, last.destinationFrame, last.sourceFrame,
               last.resolution, ~last.root).projectionMatrix

C8_DestinationFallback ==
    Called =>
        destinationFrame =
            IF last.destinationFrame # NULL THEN last.destinationFrame
            ELSE IF last.pre.destinationFrame # NULL
                 THEN last.pre.destinationFrame
            ELSE last.pre.defaultFrame

\* An update without destination frame, none stored, defaultFrame set.
C8_Witness ==
    /\ Called
    /\ last.destinationFrame = NULL
    /\ last.pre.destinationFrame = NULL
    /\ last.pre.defaultFrame = FrameD
    /\ destinationFrame = FrameD

\* C9: after an update that supplies both frames, later updates that omit
\* both leave the two stored frames as supplied and derive the projection
\* from that source frame; an update that supplies only a destination frame
\* replaces destinationFrame and keeps sourceFrame.
C9_FramesPersist ==
    persist # NULL =>
        /\ destinationFrame = persist.destinationFrame
        /\ sourceFrame = persist.sourceFrame
        /\ Called =>
              /\ ~last.threw
              /\ projectionMatrix =
                    appendTransform(
                        callCalculateProjection(
                            [Enter(last.pre) EXCEPT
                                !.destinationFrame = persist.destinationFrame,
                                !.sourceFrame = persist.sourceFrame],
                            last.resolution, last.root)).projectionMatrix

\* An update that omits both frames after one that supplied two different ones.
C9_Witness ==
    /\ persist # NULL
    /\ persist.calls >= 1
    /\ Called
    /\ last.destinationFrame = NULL
    /\ last.sourceFrame = NULL
    /\ destinationFrame = FrameA
    /\ sourceFrame = FrameB

\* The positions of a call in the calls an update made.
Positions(name) == {i \in DOMAIN last.trace : last.trace[i] = name}

\* Every call named first was made before every call named second.
Before(first, second) ==
    \A i \in Positions(first), j \in Positions(second) : i < j

\* C10: every completed update stores its projectionMatrix instance, never
\* replaced, under the projectionMatrix key of the global uniforms and calls
\* the global uniforms' update exactly once, after the projection was
\* calculated and the transform appended; the global uniforms then hold the
\* value of projectionMatrix.
C10_UniformsWritten ==
    Completed =>
        /\ projectionMatrix.id = last.pre.projectionMatrix.id
        /\ globalUniforms.projectionMatrix = projectionMatrix.id
        /\ UniformValue(globalUniforms, projectionMatrix) = Components(projectionMatrix)
        /\ globalUniforms.dirtyId = last.pre.globalUniforms.dirtyId + 1
        /\ Cardinality(Positions("uniforms.projectionMatrix")) = 1
        /\ Cardinality(Positions("globalUniforms.update")) = 1
        /\ Cardinality(Positions("calculateProjection")) = 1
        /\ Cardinality(Positions("append")) = (IF transform # NULL THEN 1 ELSE 0)
        /\ Before("calculateProjection", "append")
        /\ Before("calculateProjection", "uniforms.projectionMatrix")
        /\ Before("append", "uniforms.projectionMatrix")
        /\ Before("uniforms.projectionMatrix", "globalUniforms.update")

\* A completed update with a transform appended.
C10_Witness ==
    /\ Completed
    /\ transform = Shear
    /\ last.trace = <<"calculateProjection", "append",
                      "uniforms.projectionMatrix", "globalUniforms.update">>
    /\ last.pre.globalUniforms.projectionMatrix = RendererMatrix.id
    /\ globalUniforms.projectionMatrix = projectionMatrix.id
    /\ globalUniforms.dirtyId = 1

\* C11: an update made while a shader is bound synchronizes that shader's
\* globals group exactly once, after the global uniforms were written and
\* marked for upload in the same call; an update made while no shader is
\* bound synchronizes nothing and still completes with the global uniforms
\* written.
C11_ShaderSync ==
    Called =>
        IF last.pre.shader.shader # NULL
        THEN /\ Cardinality(Positions("syncUniformGroup")) = 1
             /\ Cardinality(Positions("uniforms.projectionMatrix")) = 1
             /\ Cardinality(Positions("globalUniforms.update")) = 1
             /\ Before("uniforms.projectionMatrix", "syncUniformGroup")
             /\ Before("globalUniforms.update", "syncUniformGroup")
             /\ last.synced = Components(projectionMatrix)
        ELSE /\ Positions("syncUniformGroup") = {}
             /\ last.synced = NULL
             /\ ~last.threw
             /\ globalUniforms.projectionMatrix = projectionMatrix.id

\* The same protocol, of the update calls that reach line 88.
SyncWhenCompleted == Completed => C11_ShaderSync

C13_ResolutionIgnored ==
    Called =>
        \A resolution \in Resolutions :
            LET other == updateBody(last.pre, last.destinationFrame,
                                    last.sourceFrame, resolution, last.root)
            IN  /\ other.destinationFrame = destinationFrame
                /\ other.sourceFrame = sourceFrame
                /\ other.projectionMatrix = projectionMatrix
                /\ other.threw = last.threw

\* A completed update called with resolution 2.
C13_Witness ==
    /\ Completed
    /\ last.resolution = 2
    /\ sourceFrame = FrameA
    /\ transform = NULL
    /\ projectionMatrix.a = <<1, 400>>
    /\ projectionMatrix.d = <<1, 300>>

\* C14: an update whose resolved source frame has width 0 completes without
\* raising, sets a to the infinite value of the division by zero and still
\* writes the matrix to the global uniforms.
C14_DegenerateFrame ==
    (Called /\ sourceFrame # NULL /\ sourceFrame.width = 0) =>
        /\ ~last.threw
        /\ calculateProjection(last.pre.projectionMatrix, destinationFrame,
                               sourceFrame, last.resolution, last.root).a = Infinity
        /\ transform = NULL => projectionMatrix.a = Infinity
        /\ ~IsFinite(projectionMatrix.a)
        /\ globalUniforms.projectionMatrix = projectionMatrix.id
        /\ UniformValue(globalUniforms, projectionMatrix).a = projectionMatrix.a
        /\ globalUniforms.dirtyId = last.pre.globalUniforms.dirtyId + 1

\* An update with the frame of width 0 and no transform: a is Infinity, and
\* tx = -1 - 0 * Infinity is NaN.
C14_Witness ==
    /\ Completed
    /\ sourceFrame = FrameZ
    /\ transform = NULL
    /\ projectionMatrix.a = Infinity
    /\ projectionMatrix.tx = NaN
    /\ globalUniforms.projectionMatrix = projectionMatrix.id

\* C15: an update that cannot complete because no source frame was resolved
\* leaves projectionMatrix and the global uniforms as they were and makes no
\* upload and no shader sync; only destinationFrame and sourceFrame may have
\* been overwritten.
C15_FailedUpdate ==
    (Called /\ last.threw) =>
        /\ sourceFrame = NULL
        /\ projectionMatrix = last.pre.projectionMatrix
        /\ globalUniforms = last.pre.globalUniforms
        /\ Positions("uniforms.projectionMatrix") = {}
        /\ Positions("globalUniforms.update") = {}
        /\ Positions("syncUniformGroup") = {}
        /\ last.synced = NULL
        /\ defaultFrame = last.pre.defaultFrame
        /\ transform = last.pre.transform
        /\ shader = last.pre.shader

\* A failed update with a shader bound that overwrote destinationFrame.
C15_Witness ==
    /\ Called
    /\ last.threw
    /\ shader.shader = Program
    /\ last.pre.destinationFrame = NULL
    /\ destinationFrame = FrameD
    /\ last.trace = <<"calculateProjection">>

\* C16: a stored frame never reverts to absent: once destinationFrame is
\* non-null it is non-null after every update or setTransform call, and
\* likewise sourceFrame.
C16_FramesStay ==
    (Called \/ last.op = "setTransform") =>
        /\ last.pre.destinationFrame # NULL => destinationFrame # NULL
        /\ last.pre.sourceFrame # NULL => sourceFrame # NULL

\* An update that omits both frames while both are stored.
C16_Witness ==
    /\ Called
    /\ last.destinationFrame = NULL
    /\ last.sourceFrame = NULL
    /\ last.pre.destinationFrame = FrameC
    /\ last.pre.sourceFrame = FrameZ
    /\ destinationFrame = FrameC
    /\ sourceFrame = FrameZ

\* The calls update() makes on the renderer and on its own matrix.
KnownCalls ==
    {"calculateProjection", "append", "uniforms.projectionMatrix",
     "globalUniforms.update", "syncUniformGroup"}

\* C17: update and setTransform never write defaultFrame or transform, which
\* keep the values the host set last, and update makes no viewport call.
C17_HostFieldsKept ==
    (Called \/ last.op = "setTransform") =>
        /\ defaultFrame = last.pre.defaultFrame
        /\ transform = last.pre.transform
        /\ \A i \in DOMAIN last.trace : last.trace[i] \in KnownCalls

\* A completed update with a destination frame, defaultFrame and transform set.
C17_Witness ==
    /\ Completed
    /\ last.destinationFrame = FrameA
    /\ destinationFrame = FrameA
    /\ defaultFrame = FrameD
    /\ transform = Shear

====
